---------------------------- MODULE Spec2Model ----------------------------
(***************************************************************************)
(* The genetic algorithm of cilindro_ga.py and placa_plana_ga.py.          *)
(*                                                                         *)
(* Both files hold one run_GA: seed (cilindro only), initial population,   *)
(* fitness, then `generations` times: statistics, elitist copy, breeding   *)
(* (tournament, arithmetic crossover, gaussian mutation with clamping),    *)
(* generational replacement; then the final best individual.               *)
(*                                                                         *)
(* Numbers.  Genes are float64 in the code.  Here a gene is an integer:    *)
(* the coordinate of the value on a coarse grid of representable values.   *)
(* A product by a random coefficient is rounded to the grid (RoundDiv,     *)
(* round half to even), as float64 rounds every product to its own grid.   *)
(* Physical constants are written in grid coordinates, see each of them.   *)
(* A fitness or heat flow is an extended value: finite, +inf, -inf or nan, *)
(* with the IEEE-754 rules numpy applies (x/0 = inf, 0/0 = nan,            *)
(* comparisons with nan are false).                                        *)
(*                                                                         *)
(* Arrays.  A numpy array is an object: [ref |-> 0, val |-> v] owns its    *)
(* storage, [ref |-> i, ...] is a view of row i of `population`, so that   *)
(* an in-place write through it changes the population.                    *)
(***************************************************************************)
EXTENDS Integers, Sequences, FiniteSets, TLC

VARIABLES
    variant,         \* "cilindro" or "placa": which file's run_GA runs
    bounds,          \* <<<<low, high>>, <<low, high>>>>, one pair per gene
    pop_size,        \* run_GA's arguments
    generations,
    crossover_rate,  \* numerator over RandDen (pc in placa_plana_ga.py)
    mutation_rate,   \* numerator over RandDen (pm in placa_plana_ga.py)
    seed,
    at,              \* position in run_GA
    gen,             \* the for loop's counter
    population,      \* sequence of gene vectors
    fitness,         \* sequence of extended values, parallel to population
    new_population,  \* Python list of array objects
    child1, child2,  \* the array objects between crossover and mutation
    hist,            \* the history lists, one record per generation
                     \* (ind: best_t in cilindro, t and k in placa)
    result,          \* what run_GA returned
    rng,             \* state of numpy's global generator
    run,             \* 1 or 2: which execution (two-execution specification)
    first            \* what the first execution produced

vars == <<variant, bounds, pop_size, generations, crossover_rate,
          mutation_rate, seed, at, gen, population, fitness, new_population,
          child1, child2, hist, result, rng, run, first>>

config == <<variant, bounds, pop_size, generations, crossover_rate,
            mutation_rate, seed>>

-----------------------------------------------------------------------------
(* Bounds of the model *)

MaxPop == 3          \* largest pop_size explored
MaxGen == 2          \* largest generations explored
MaxEvals == 6        \* most calls of the objective in one run:
                     \* pop_size * (generations + 1)
RandDen == 2         \* np.random.rand() returns u / RandDen, u in 0..RandDen-1
MaxStep == 1         \* a gaussian perturbation is in -MaxStep..MaxStep
RngMod == 8          \* the states of the random generator are 0..RngMod-1
MaxSeed == 1         \* seeds explored: 0..MaxSeed
penalty_factor == 1  \* run_GA's penalty_factor argument (any positive real)

-----------------------------------------------------------------------------
(* Extended (IEEE-754) values *)

Fin(n) == [c |-> "fin", v |-> n]
PosInf == [c |-> "inf", v |-> 0]
NegInf == [c |-> "ninf", v |-> 0]
NaN == [c |-> "nan", v |-> 0]

IsFinite(x) == x.c = "fin"

\* x < y; false when either is nan
FLt(x, y) ==
    CASE x.c = "nan" \/ y.c = "nan" -> FALSE
      [] x.c = "fin" /\ y.c = "fin" -> x.v < y.v
      [] x.c = "ninf" -> y.c # "ninf"
      [] x.c = "inf" -> FALSE
      [] OTHER -> y.c = "inf"      \* x finite, y infinite

FGt(x, y) == FLt(y, x)
FLe(x, y) == FLt(x, y) \/ (x.c # "nan" /\ x = y)

\* x + y
FAdd(x, y) ==
    CASE x.c = "nan" \/ y.c = "nan" -> NaN
      [] x.c = "fin" /\ y.c = "fin" -> Fin(x.v + y.v)
      [] x.c = "fin" -> y
      [] y.c = "fin" -> x
      [] x.c = y.c -> x
      [] OTHER -> NaN

\* the float64 quotient n / d of a finite n by an extended d, in units of
\* 1/scale (floor division stands for the rounding of the quotient)
FDiv(n, d, scale) ==
    CASE d.c = "nan" -> NaN
      [] d.c \in {"inf", "ninf"} -> Fin(0)
      [] d.v = 0 -> IF n = 0 THEN NaN ELSE IF n > 0 THEN PosInf ELSE NegInf
      [] d.v > 0 -> Fin((n * scale) \div d.v)
      [] OTHER -> Fin(-((n * scale) \div (-d.v)))

\* penalty_factor * (Q - Q_max)**2 for Q > Q_max
Penalty(Q, limit) ==
    IF Q.c = "inf" THEN PosInf
    ELSE Fin(penalty_factor * (Q.v - limit) * (Q.v - limit))

\* np.log of an integer ratio, in tenths
np_log(x) ==
    CASE x < 0 -> NaN
      [] x = 0 -> NegInf
      [] x = 1 -> Fin(0)
      [] x = 2 -> Fin(7)
      [] x = 3 -> Fin(11)
      [] x = 4 -> Fin(14)
      [] x = 5 -> Fin(16)
      [] x = 6 -> Fin(18)
      [] OTHER -> Fin(20)

\* n / d rounded to the nearest integer, ties to even (d > 0)
RoundDiv(n, d) ==
    LET q == n \div d
        r == n % d
    IN  IF 2 * r < d THEN q
        ELSE IF 2 * r > d THEN q + 1
        ELSE IF q % 2 = 0 THEN q ELSE q + 1

Min(a, b) == IF a < b THEN a ELSE b
Max(a, b) == IF a > b THEN a ELSE b

\* np.clip(x, low, high) = minimum(maximum(x, low), high)
np_clip(x, low, high) == Min(Max(x, low), high)

-----------------------------------------------------------------------------
(* cilindro_ga.py: physical parameters and objective.  Lengths are in grid *)
(* units of r1 (0.5 m), so that r2 / r1 is the integer r1 + t.             *)

r1 == 1
cil_L == 2
cil_dT == 180
cil_Q_max == 120
cil_k_max == 2       \* 0.084 W/m.K, the top of the k grid

\* Q = 2 * pi * k * L * dT / ln(r2 / r1), with 2 * pi taken as 6
cil_heat_flow(k, t) ==
    LET r2 == r1 + t
    IN  FDiv(6 * k * cil_L * cil_dT, np_log(r2 \div r1), 10)

cil_objective(individual) ==
    LET k == individual[1]
        t == individual[2]
        Q == cil_heat_flow(k, t)
        f0 == Fin(t)
        f1 == IF FGt(Q, Fin(cil_Q_max)) THEN FAdd(f0, Penalty(Q, cil_Q_max))
              ELSE f0
    IN  IF k > cil_k_max
        THEN FAdd(f1, Fin(penalty_factor * (k - cil_k_max) * (k - cil_k_max)))
        ELSE f1

-----------------------------------------------------------------------------
(* placa_plana_ga.py: physical parameters and fitness.  Lengths are in     *)
(* grid units of r_i; t_min..t_max and k_min..k_max are the grid           *)
(* coordinates of the ends of the search ranges.                           *)

r_i == 1
pl_L == 1
pl_dT == 425         \* T_i - T_inf = 500 - 75
h == 10
pl_Q_max == 120
t_min == 1
t_max == 2
k_min == 1
k_max == 2
Sentinel == 1000000000

\* Q = 2 pi L dT / [ ln(r_o / r_i) / k + 1 / (h r_o) ], denominator in
\* hundredths
pl_heat_flow(k, t) ==
    LET r_o == r_i + t
        ln == np_log(r_o \div r_i)
        denom == (ln.v * 10) \div k + 100 \div (h * r_o)
    IN  FDiv(6 * pl_L * pl_dT, Fin(denom), 100)

\* fitness(individual); the normalised t and k are 0 or 1 on this grid
pl_fitness(individual) ==
    LET t == individual[1]
        k == individual[2]
    IN  IF ~(t_min <= t /\ t <= t_max) \/ ~(k_min <= k /\ k <= k_max)
        THEN Fin(Sentinel)
        ELSE LET Q == pl_heat_flow(k, t)
                 t_norm == (t - t_min) \div (t_max - t_min)
                 k_norm == (k - k_min) \div (k_max - k_min)
                 base_obj == Fin(t_norm + k_norm)
                 penalty == IF FGt(Q, Fin(pl_Q_max))
                            THEN Penalty(Q, pl_Q_max) ELSE Fin(0)
             IN  FAdd(base_obj, penalty)

-----------------------------------------------------------------------------
(* What both run_GA share *)

objective(individual) ==
    IF variant = "cilindro" THEN cil_objective(individual)
    ELSE pl_fitness(individual)

\* heat_flow(k, t) of an individual; the gene order differs
heat_flow(individual) ==
    IF variant = "cilindro" THEN cil_heat_flow(individual[1], individual[2])
    ELSE pl_heat_flow(individual[2], individual[1])

\* np.array([objective(ind) for ind in pop])
evaluate(pop) == [i \in 1..Len(pop) |-> objective(pop[i])]

HasNaN(f) == \E i \in 1..Len(f) : f[i].c = "nan"
FirstNaN(f) == CHOOSE i \in 1..Len(f) :
                  f[i].c = "nan" /\ \A j \in 1..(i - 1) : f[j].c # "nan"

\* a faulty np.argmin: the comparison reversed, the first maximum
np_argmin_reversed(f) ==
    CHOOSE i \in 1..Len(f) :
        /\ \A j \in 1..Len(f) : FLe(f[j], f[i])
        /\ \A j \in 1..(i - 1) : FLt(f[j], f[i])

\* np.argmin(f): the first index of the minimum (of the first nan, if any)
np_argmin(f) ==
    IF HasNaN(f) THEN FirstNaN(f)
    ELSE CHOOSE i \in 1..Len(f) :
            /\ \A j \in 1..Len(f) : FLe(f[i], f[j])
            /\ \A j \in 1..(i - 1) : FLt(f[i], f[j])

\* np.argmax(f)
np_argmax(f) ==
    IF HasNaN(f) THEN FirstNaN(f)
    ELSE CHOOSE i \in 1..Len(f) :
            /\ \A j \in 1..Len(f) : FLe(f[j], f[i])
            /\ \A j \in 1..(i - 1) : FLt(f[j], f[i])

RECURSIVE FSum(_, _)
FSum(f, n) == IF n = 0 THEN Fin(0) ELSE FAdd(FSum(f, n - 1), f[n])

\* np.mean(f), Len(f) > 0
np_mean(f) ==
    LET s == FSum(f, Len(f))
    IN  IF s.c = "fin" THEN Fin(s.v \div Len(f)) ELSE s

-----------------------------------------------------------------------------
(* Array objects *)

Own(v) == [ref |-> 0, val |-> v]
View(i) == [ref |-> i, val |-> <<0, 0>>]

\* the contents of array object a while the population is pop
Deref(pop, a) == IF a.ref = 0 THEN a.val ELSE pop[a.ref]

\* a faulty a.copy(): the array itself, no copy taken
CopyAlias(pop, a) == a

\* a.copy()
Copy(pop, a) == Own(Deref(pop, a))

\* a[:] = v, in place: the object afterwards, and the population afterwards
Stored(a, v) == IF a.ref = 0 THEN Own(v) ELSE a
WriteRow(pop, a, v) == IF a.ref = 0 THEN pop ELSE [pop EXCEPT ![a.ref] = v]

-----------------------------------------------------------------------------
(* Operators on individuals *)

low(i) == bounds[i][1]
high(i) == bounds[i][2]

\* the values np.random.uniform(low, high) returns: low + (high - low) * u
UniformRange(i) == Min(low(i), high(i)) .. Max(low(i), high(i))

Steps == (0 - MaxStep) .. MaxStep
Rand == 0 .. (RandDen - 1)

\* cilindro: population[i1] if fitness[i1] < fitness[i2] else population[i2]
cil_tournament_selection(idxs) ==
    IF FLt(fitness[idxs[1]], fitness[idxs[2]]) THEN View(idxs[1])
    ELSE View(idxs[2])

\* placa: idxs[np.argmin(fitnesses[idxs])], k_tour = 3
pl_tournament_selection(idxs) ==
    View(idxs[np_argmin([j \in 1..Len(idxs) |-> fitness[idxs[j]]])])

tournament_selection(idxs) ==
    IF variant = "cilindro" THEN cil_tournament_selection(idxs)
    ELSE pl_tournament_selection(idxs)

\* the number of indexes one tournament draws
k_tour == IF variant = "cilindro" THEN 2 ELSE 3

\* alpha * x + (1 - alpha) * y for alpha = a / RandDen, gene by gene
Blend(a, x, y) ==
    [i \in 1..2 |-> RoundDiv(a * x[i], RandDen)
                     + RoundDiv((RandDen - a) * y[i], RandDen)]

\* the two children of parent1 and parent2 (array objects); u and a are
\* the values of np.random.rand()
crossover(parent1, parent2, u, a) ==
    IF u < crossover_rate
    THEN <<Own(Blend(a, Deref(population, parent1), Deref(population, parent2))),
           Own(Blend(a, Deref(population, parent2), Deref(population, parent1)))>>
    ELSE <<Copy(population, parent1), Copy(population, parent2)>>

\* cilindro, lines 124-129: gene i of a child after the mutation step
cil_mutate_gene(i, x, u, n) ==
    IF u < mutation_rate
    THEN LET var_range == high(i) - low(i)
             step == IF var_range = 0 THEN 0 ELSE n
         IN  np_clip(x + step, low(i), high(i))
    ELSE x

\* np.random.normal(0, mutation_scale * var_range) raises ValueError when
\* the scale is negative
cil_mutate_raises(us) ==
    \E i \in 1..2 : us[i] < mutation_rate /\ high(i) - low(i) < 0

\* placa, mutate(individual, pm): the clip is applied to every gene
pl_mutate_gene(i, x, u, n) ==
    LET y == IF u < mutation_rate THEN x + n ELSE x
    IN  np_clip(y, low(i), high(i))

\* the genes of a child after the mutation step; us and ns are the values
\* of np.random.rand() and np.random.normal()
mutate(v, us, ns) ==
    [i \in 1..2 |-> IF variant = "cilindro"
                    THEN cil_mutate_gene(i, v[i], us[i], ns[i])
                    ELSE pl_mutate_gene(i, v[i], us[i], ns[i])]

-----------------------------------------------------------------------------
(* run_GA *)

NoResult == [none |-> TRUE]
NoChild == Own(<<0, 0>>)

\* a faulty loop test: one generation too many
LoopOneMore == gen <= generations

\* for gen in range(generations)
LoopContinues == gen < generations

\* a faulty elitism: the best individual is not carried over
ElitismDropped(best_ind) == <<>>

\* new_population = []; new_population.append(best_ind)
Elitism(best_ind) == <<best_ind>>

\* a faulty append: the second child is appended without the size test
pl_append_both(new_pop, c1, c2) == Append(Append(new_pop, c1), c2)

\* placa: new_pop.append(c1); if len(new_pop) < pop_size: new_pop.append(c2)
pl_append_children(new_pop, c1, c2) ==
    IF Len(new_pop) + 1 < pop_size THEN Append(Append(new_pop, c1), c2)
    ELSE Append(new_pop, c1)

\* np.zeros((pop_size, n_var)) raises ValueError on a negative dimension
\* lines 60-72 (cilindro), 124-125 (placa): the initial population, gene by
\* gene uniform in the bounds, and its fitness
Start(init) ==
    /\ at = "start"
    /\ IF pop_size < 0
       THEN /\ at' = "error"
            /\ UNCHANGED <<population, fitness>>
       ELSE /\ population' = init
            /\ fitness' = evaluate(init)
            /\ at' = "for"
    /\ gen' = 0
    /\ UNCHANGED <<config, new_population, child1, child2, hist, result>>

\* the statistics of a generation and the elitist copy
GenStats ==
    /\ at = "for"
    /\ LoopContinues
    /\ IF Len(fitness) = 0
       THEN \* np.argmin of an empty array raises ValueError
            /\ at' = "error"
            /\ UNCHANGED <<hist, new_population>>
       ELSE LET best_idx == np_argmin(fitness)
                best_ind == Copy(population, View(best_idx))
                genes == Deref(population, best_ind)
            IN  /\ hist' = Append(hist,
                       [best |-> fitness[best_idx],
                        worst |-> fitness[np_argmax(fitness)],
                        mean |-> np_mean(fitness),
                        ind |-> IF variant = "cilindro" THEN <<genes[2]>>
                                ELSE genes,
                        Q |-> heat_flow(genes)])
                /\ new_population' = Elitism(best_ind)
                /\ at' = "while"
    /\ UNCHANGED <<config, gen, population, fitness, child1, child2, result>>

\* two tournaments and the crossover; sel1 and sel2 are what
\* tournament_selection returns for the indexes np.random.randint draws
Breed(sel1, sel2, u, a) ==
    /\ at = "while"
    /\ Len(new_population) < pop_size
    /\ LET parent1 == Copy(population, sel1)
           parent2 == Copy(population, sel2)
           c == crossover(parent1, parent2, u, a)
       IN  /\ child1' = c[1]
           /\ child2' = c[2]
    /\ at' = "mutate1"
    /\ UNCHANGED <<config, gen, population, fitness, new_population, hist,
                   result>>

\* what the mutation step does to a child for the draws us of
\* np.random.rand() and ns of np.random.normal(): it raises, or the genes
\* become val
mutation(child, us, ns) ==
    [raises |-> variant = "cilindro" /\ cil_mutate_raises(us),
     val |-> mutate(Deref(population, child), us, ns)]

\* the mutation m of the first child, in place.  cilindro appends it at
\* once and leaves the for loop when it fills the list; placa appends after
\* both mutations.
MutateFirst(m) ==
    /\ at = "mutate1"
    /\ LET c == Stored(child1, m.val)
           full == Len(new_population) + 1 >= pop_size
       IN  IF m.raises
           THEN /\ at' = "error"
                /\ UNCHANGED <<population, new_population, child1, child2>>
           ELSE /\ population' = WriteRow(population, child1, m.val)
                /\ IF variant = "cilindro"
                   THEN /\ new_population' = Append(new_population, c)
                        /\ child1' = NoChild
                        /\ child2' = IF full THEN NoChild ELSE child2
                        /\ at' = IF full THEN "while" ELSE "mutate2"
                   ELSE /\ child1' = c
                        /\ at' = "mutate2"
                        /\ UNCHANGED <<new_population, child2>>
    /\ UNCHANGED <<config, gen, fitness, hist, result>>

\* the mutation m of the second child, in place, and the remaining appends
MutateSecond(m) ==
    /\ at = "mutate2"
    /\ LET c == Stored(child2, m.val)
       IN  IF m.raises
           THEN /\ at' = "error"
                /\ UNCHANGED <<population, new_population, child1, child2>>
           ELSE /\ population' = WriteRow(population, child2, m.val)
                /\ new_population' =
                      IF variant = "cilindro" THEN Append(new_population, c)
                      ELSE pl_append_children(new_population, child1, c)
                /\ child1' = NoChild
                /\ child2' = NoChild
                /\ at' = "while"
    /\ UNCHANGED <<config, gen, fitness, hist, result>>

\* population = np.array(new_population); fitness = evaluate(population)
Replace ==
    /\ at = "while"
    /\ Len(new_population) >= pop_size
    /\ LET pop == [i \in 1..Len(new_population) |->
                     Deref(population, new_population[i])]
       IN  /\ population' = pop
           /\ fitness' = evaluate(pop)
    /\ new_population' = <<>>
    /\ gen' = gen + 1
    /\ at' = "for"
    /\ UNCHANGED <<config, child1, child2, hist, result>>

\* the final result, lines 139-151 (cilindro), 192-209 (placa)
Finish ==
    /\ at = "for"
    /\ ~LoopContinues
    /\ IF Len(fitness) = 0
       THEN /\ at' = "error"
            /\ UNCHANGED result
       ELSE LET best_idx == np_argmin(fitness)
            IN  /\ result' =
                      IF variant = "cilindro"
                      THEN [best_individual |-> population[best_idx],
                            best_fitness |-> fitness[best_idx]]
                      ELSE [best_individual |-> population[best_idx],
                            Q_best |-> heat_flow(population[best_idx])]
                /\ at' = "done"
    /\ UNCHANGED <<config, gen, population, fitness, new_population, child1,
                   child2, hist>>

-----------------------------------------------------------------------------
(* The configurations explored *)

Variants == {"cilindro", "placa"}
PopSizes == -1 .. MaxPop
Generations == 0 .. MaxGen
\* a probability never met, one met by some draws, one out of range
Rates == {0, 1, RandDen + 1}

\* the lowest bound explored: r1 + t < 0 there
GeneLow == 0 - (r1 + 1)

\* cilindro takes its bounds as an argument; low > high is not rejected.
\* In turn: t = 0 admitted, the ordinary case, r1 + t <= 0 admitted, a gene
\* of one value beside one of three, low > high.
CilBounds == {<<(<<0, 1>>), (<<0, 1>>)>>,
              <<(<<1, 2>>), (<<1, 2>>)>>,
              <<(<<0, 1>>), (<<GeneLow, 0 - r1>>)>>,
              <<(<<1, 1>>), (<<0, 2>>)>>,
              <<(<<1, 0>>), (<<1, 2>>)>>}
BoundsOf(v) ==
    IF v = "cilindro" THEN CilBounds
    ELSE {<<(<<t_min, t_max>>), (<<k_min, k_max>>)>>}

ValidConfig ==
    /\ \A i \in 1..2 : low(i) <= high(i)
    /\ pop_size > 0
    /\ generations > 0
    /\ crossover_rate \in 0..RandDen
    /\ mutation_rate \in 0..RandDen

InitRun ==
    /\ at = "start"
    /\ gen = 0
    /\ population = <<>>
    /\ fitness = <<>>
    /\ new_population = <<>>
    /\ child1 = NoChild
    /\ child2 = NoChild
    /\ hist = <<>>
    /\ result = NoResult

InitConfig ==
    /\ variant \in Variants
    /\ bounds \in BoundsOf(variant)
    /\ pop_size \in PopSizes
    /\ generations \in Generations
    /\ pop_size * (generations + 1) <= MaxEvals
    /\ crossover_rate \in Rates
    /\ mutation_rate \in Rates

\* the initial populations np.random.uniform can produce
InitPopulations ==
    IF pop_size < 0 THEN {<<>>}
    ELSE [1..pop_size -> UniformRange(1) \X UniformRange(2)]

IndexTuples == [1..k_tour -> 1..pop_size]
Selections == {tournament_selection(idxs) : idxs \in IndexTuples}
RandPairs == Rand \X Rand
StepPairs == Steps \X Steps

-----------------------------------------------------------------------------
(* One execution, the random draws being arbitrary *)

Init ==
    /\ InitConfig
    /\ InitRun
    /\ seed = 0
    /\ rng = 0
    /\ run = 1
    /\ first = NoResult

DoStart == \E init \in InitPopulations :
    Start(init) /\ UNCHANGED <<rng, run, first>>

DoGenStats == GenStats /\ UNCHANGED <<rng, run, first>>

DoBreed ==
    /\ at = "while"
    /\ \E sel1 \in Selections, sel2 \in Selections, u \in Rand, a \in Rand :
          Breed(sel1, sel2, u, a) /\ UNCHANGED <<rng, run, first>>

DoMutateFirst ==
    /\ at = "mutate1"
    /\ \E m \in {mutation(child1, us, ns) : us \in RandPairs, ns \in StepPairs} :
          MutateFirst(m) /\ UNCHANGED <<rng, run, first>>

DoMutateSecond ==
    /\ at = "mutate2"
    /\ \E m \in {mutation(child2, us, ns) : us \in RandPairs, ns \in StepPairs} :
          MutateSecond(m) /\ UNCHANGED <<rng, run, first>>

DoReplace == Replace /\ UNCHANGED <<rng, run, first>>

DoFinish == Finish /\ UNCHANGED <<rng, run, first>>

Next ==
    \/ DoStart
    \/ DoGenStats
    \/ DoBreed
    \/ DoMutateFirst
    \/ DoMutateSecond
    \/ DoReplace
    \/ DoFinish

Spec == Init /\ [][Next]_vars

\* The single-threaded loop runs on until it returns or raises.  The
\* configurations are those of Init whose probabilities are met by some
\* draws and missed by others, with cilindro's ordinary bounds and the
\* bounds whose low > high make np.random.normal raise.
FairInit ==
    /\ Init
    /\ crossover_rate = 1
    /\ mutation_rate = 1
    /\ variant = "cilindro" =>
          bounds \in {<<(<<1, 2>>), (<<1, 2>>)>>, <<(<<1, 0>>), (<<1, 2>>)>>}

FairSpec == FairInit /\ [][Next]_vars /\ WF_vars(Next)

-----------------------------------------------------------------------------
(* Two executions in one process, the draws coming from numpy's global     *)
(* generator.  The generator is a stand-in: a congruential generator over  *)
(* 0..RngMod-1, each draw advancing the state and reading its value.       *)

RngStates == 0 .. (RngMod - 1)
RngNext(s) == (5 * s + 3) % RngMod

\* the generator's state after k draws from state s
RECURSIVE Skip(_, _)
Skip(s, k) == IF k = 0 THEN s ELSE Skip(RngNext(s), k - 1)

\* np.random.seed(seed)
np_random_seed(sd) == sd % RngMod

\* the values of np.random.rand, normal, randint and uniform on draw x
rand_of(x) == x % RandDen
normal_of(x) == (x % (2 * MaxStep + 1)) - MaxStep
randint_of(x) == 1 + (x % pop_size)
uniform_of(i, x) ==
    Min(low(i), high(i)) + (x % (Max(low(i), high(i)) - Min(low(i), high(i)) + 1))

\* cilindro seeds the generator, placa draws from it as it stands
SeedStart ==
    /\ at = "start"
    /\ LET s0 == IF variant = "cilindro" THEN np_random_seed(seed) ELSE rng
           n == Max(pop_size, 0)
           init == [j \in 1..n |-> <<uniform_of(1, Skip(s0, j)),
                                     uniform_of(2, Skip(s0, n + j))>>]
       IN  /\ Start(init)
           /\ rng' = Skip(s0, 2 * n)
    /\ UNCHANGED <<run, first>>

SeedBreed ==
    /\ at = "while"
    /\ Len(new_population) < pop_size
    /\ LET k == k_tour
           idx1 == [j \in 1..k |-> randint_of(Skip(rng, j))]
           idx2 == [j \in 1..k |-> randint_of(Skip(rng, k + j))]
           u == rand_of(Skip(rng, 2 * k + 1))
           a == rand_of(Skip(rng, 2 * k + 2))
       IN  /\ Breed(tournament_selection(idx1), tournament_selection(idx2), u, a)
           /\ rng' = Skip(rng, 2 * k + 1 + (IF u < crossover_rate THEN 1 ELSE 0))
    /\ UNCHANGED <<run, first>>

\* the draws of one mutation step: rand, then normal when it fires, gene
\* by gene; draws[3] draws are consumed
SeedMutation(child) ==
    LET u1 == rand_of(Skip(rng, 1))
        c1 == IF u1 < mutation_rate THEN 2 ELSE 1
        n1 == normal_of(Skip(rng, 2))
        u2 == rand_of(Skip(rng, c1 + 1))
        c2 == IF u2 < mutation_rate THEN c1 + 2 ELSE c1 + 1
        n2 == normal_of(Skip(rng, c1 + 2))
    IN  <<mutation(child, <<u1, u2>>, <<n1, n2>>), c2>>

SeedMutateFirst ==
    /\ at = "mutate1"
    /\ LET d == SeedMutation(child1)
       IN  MutateFirst(d[1]) /\ rng' = Skip(rng, d[2])
    /\ UNCHANGED <<run, first>>

SeedMutateSecond ==
    /\ at = "mutate2"
    /\ LET d == SeedMutation(child2)
       IN  MutateSecond(d[1]) /\ rng' = Skip(rng, d[2])
    /\ UNCHANGED <<run, first>>

\* the caller keeps what the first execution returned and calls run_GA
\* again, with the same arguments, after any number of other draws
Restart ==
    /\ at = "done"
    /\ run = 1
    /\ first' = [hist |-> hist, result |-> result]
    /\ run' = 2
    /\ rng' \in RngStates
    /\ at' = "start"
    /\ gen' = 0
    /\ population' = <<>>
    /\ fitness' = <<>>
    /\ new_population' = <<>>
    /\ child1' = NoChild
    /\ child2' = NoChild
    /\ hist' = <<>>
    /\ result' = NoResult
    /\ UNCHANGED config

SeedInit ==
    /\ variant \in Variants
    /\ bounds = IF variant = "cilindro" THEN <<(<<1, 2>>), (<<1, 2>>)>>
                ELSE <<(<<t_min, t_max>>), (<<k_min, k_max>>)>>
    /\ pop_size \in 1..MaxPop
    /\ generations \in 1..MaxGen
    /\ pop_size * (generations + 1) <= MaxEvals
    /\ crossover_rate \in {0, 1}
    /\ mutation_rate \in {0, 1}
    /\ InitRun
    /\ seed \in 0..MaxSeed
    /\ rng \in RngStates
    /\ run = 1
    /\ first = NoResult

SeedNext ==
    \/ SeedStart
    \/ DoGenStats
    \/ SeedBreed
    \/ SeedMutateFirst
    \/ SeedMutateSecond
    \/ DoReplace
    \/ DoFinish
    \/ Restart

SeedSpec == SeedInit /\ [][SeedNext]_vars

-----------------------------------------------------------------------------
(* Properties *)

Breeding == {"while", "mutate1", "mutate2"}
ValidBounds == \A i \in 1..2 : low(i) <= high(i)
InBounds(v) == \A i \in 1..2 : low(i) <= v[i] /\ v[i] <= high(i)
Members(pop) == {pop[i] : i \in 1..Len(pop)}
Bred == {Deref(population, new_population[i]) : i \in 2..Len(new_population)}

\* C1.  Elitism monotonicity: the best fitness recorded for generation g+1
\* is less than or equal to the one recorded for generation g, for every two
\* consecutive records of the history.
ElitismMonotone ==
    \A g \in 1..(Len(hist) - 1) : FLe(hist[g + 1].best, hist[g].best)

\* a second record strictly better than the first
ElitismImproves ==
    /\ Len(hist) >= 2
    /\ FLt(hist[2].best, hist[1].best)

\* C2.  Boundedness: with low <= high for every gene, every gene of every
\* individual of the population, of the next population and of the children
\* after crossover and after mutation lies in [low, high].
Boundedness ==
    ValidBounds =>
        /\ \A v \in Members(population) : InBounds(v)
        /\ \A i \in 1..Len(new_population) :
              InBounds(Deref(population, new_population[i]))
        /\ at \in {"mutate1", "mutate2"} =>
              /\ InBounds(Deref(population, child1))
              /\ InBounds(Deref(population, child2))

\* C3.  Reproducibility: a second execution with the same arguments and
\* seed returns the history and result of the first, whatever was drawn
\* from the generator in between.
Reproducible ==
    (run = 2 /\ at = "done") => (hist = first.hist /\ result = first.result)

\* C4.  Configuration errors fail fast: with low > high for a gene, a
\* non-positive pop_size or generations, or a probability outside [0, 1],
\* the run reports an error before it initialises the population; it has
\* no population, no history record and no result.
ConfigErrorsFailFast ==
    ~ValidConfig =>
        /\ at \in {"start", "error"}
        /\ population = <<>>
        /\ hist = <<>>
        /\ result = NoResult

\* C5.  The loop never holds a non-finite fitness: with low <= high for
\* every gene, every value of the fitness vector is finite.
FitnessFinite ==
    ValidBounds => \A i \in 1..Len(fitness) : IsFinite(fitness[i])

\* C6.  The result is the global best: every record's best fitness is the
\* minimum of the population it was taken from, and at the end the minimum
\* of the final population is at most every recorded best fitness and is
\* the fitness of the returned individual (and the returned best fitness).
ResultIsGlobalBest ==
    /\ at \in Breeding =>
          \A i \in 1..Len(fitness) : FLe(hist[Len(hist)].best, fitness[i])
    /\ at = "done" =>
          LET best_fit == fitness[np_argmin(fitness)]
          IN  /\ \A i \in 1..Len(fitness) : FLe(best_fit, fitness[i])
              /\ \A g \in 1..Len(hist) : FLe(best_fit, hist[g].best)
              /\ objective(result.best_individual) = best_fit
              /\ result.best_individual \in Members(population)
              /\ variant = "cilindro" => result.best_fitness = best_fit

\* a finished run whose result is strictly better than its first record
ResultImproved ==
    /\ at = "done"
    /\ Len(hist) >= 1
    /\ FLt(objective(result.best_individual), hist[1].best)

\* C7.  Population size is constant: for pop_size >= 1, once initialised
\* the population and the fitness vector hold exactly pop_size entries, in
\* every generation, and the next population never holds more than
\* pop_size: it holds pop_size when it replaces the population.
PopulationSizeConstant ==
    (pop_size >= 1 /\ at # "start") =>
        /\ Len(population) = pop_size
        /\ Len(fitness) = pop_size
        /\ Len(new_population) <= pop_size
        /\ (at = "for" /\ gen > 0) => Len(new_population) = 0

\* an even pop_size: the elitist copy and the first child, the second
\* child discarded, then the replacement
SecondChildDiscarded ==
    /\ pop_size = 2
    /\ at = "for"
    /\ gen = 2
    /\ Len(population) = 2

\* C8.  Fixed-count termination: for positive pop_size and generations the
\* run ends, and it raises no error when the configuration is valid; when
\* it returns the loop has run `generations` times and the history holds
\* exactly `generations` records; a record is appended once per generation,
\* in generation order, and never changed afterwards.
FixedCountTermination ==
    /\ <>((pop_size > 0 /\ generations > 0) => at \in {"done", "error"})
    /\ [](at = "error" => ~ValidConfig)
    /\ [](at = "done" => (gen = generations /\ Len(hist) = generations))
    /\ [](at \in Breeding => Len(hist) = gen + 1)
    /\ [][\/ hist' = hist
          \/ /\ Len(hist') = Len(hist) + 1
             /\ SubSeq(hist', 1, Len(hist)) = hist]_vars

\* a run of the largest generation count, returned
ReturnedAfterAllGenerations ==
    /\ at = "done"
    /\ generations = MaxGen
    /\ Len(hist) = MaxGen

\* what the first and the second mutation steps leave of the child
FirstChildAfter ==
    IF variant = "cilindro"
    THEN Deref(population', new_population'[Len(new_population')])
    ELSE Deref(population', child1')

\* C9.  A mutation_rate of 0 makes the mutation step the identity: every
\* gene of the child after the step equals the gene before it.
MutationRateZeroIdentity ==
    [][(mutation_rate = 0 /\ at = "mutate1" /\ at' # "error")
         => FirstChildAfter = Deref(population, child1)]_vars

\* C10. Breeding never changes the source generation: every step but the
\* replacement (and the initialisation) leaves the population and its
\* fitness vector as they are, and while the next population is bred its
\* first entry, the elitist copy, keeps its genes.
BreedingPreservesSource ==
    [][(at # "start" /\ ~(at = "while" /\ at' = "for")) =>
         /\ population' = population
         /\ fitness' = fitness
         /\ (at \in Breeding /\ at' \in Breeding) =>
               Deref(population', new_population'[1])
                 = Deref(population, new_population[1])]_vars

\* a child changed by crossover or mutation: it is no member of the
\* population it was bred from
ChildDiffersFromSource ==
    /\ at = "while"
    /\ \E v \in Bred : v \notin Members(population)

=============================================================================
